---- MODULE Spec2Model ----
(***************************************************************************)
(* skill_bridge: the CV analysis workflow (a 7-node LangGraph pipeline)    *)
(* and the three model gateways its stages call (generate_safe,            *)
(* CVGenerator._get_gemini_response, SkillVerifier._get_gemini_response).  *)
(*                                                                         *)
(* Texts are abstracted to what the code inspects of them: whether a model *)
(* response is empty, JSON, fenced JSON or unparsable, and how many        *)
(* characters a CV text has before and after strip().                      *)
(***************************************************************************)
EXTENDS Integers, Sequences, FiniteSets, TLC

VARIABLES
    gwImpl,     \* the gateway function being executed, "none" when none is
    gwPhase,    \* its position: idle, list, exhausted, fallback, returned, raised
    gwIdx,      \* index into the priority list of the model tried next
    gwLog,      \* the calls issued and the sleeps taken by this invocation
    gwResult,   \* what the invocation handed to its caller
    state,      \* the run's GapAnalysisState, as the graph's channels hold it
    wfPc,       \* idle, ready, gateway, asking, returned, raised, done, failed
    wfNode,     \* the node the engine runs or runs next
    wfUpdate,   \* the update the running node returned, not yet merged
    wfError,    \* the exception the running node raised
    started,    \* the nodes the engine has started, in order
    merged,     \* the nodes whose update the engine has merged, in order
    reported,   \* what the caller of invoke() printed
    cvFile,     \* the input document: extension, readability, contents
    disk,       \* the artifacts written so far
    verify,     \* verify_skills: the questions, the position, the two lists
    fatal,      \* history: the first fatal error a stage met
    orig,       \* history: each field as its producing stage wrote it
    wrote,      \* history: the fields a completed stage has produced
    prog,       \* the program that was started: main, skill_verifier, cv_generator
    final_state,\* the caller's final_state: what invoke() returned to it
    requests,   \* the generate_content requests extract_data_node issued
    script,     \* the local variables of the two engines' __main__ blocks
    generation, \* /generate-final-cv/: the last two requests served
    runs,       \* the runs of the workflow two processes execute side by side
    files,      \* the output directory: what each file written there holds
    roadmap     \* roadmap_mvp: the run of the two-node roadmap workflow

gwVars == <<gwImpl, gwPhase, gwIdx, gwLog, gwResult>>

wfVars == <<state, wfPc, wfNode, wfUpdate, wfError, started, merged, reported,
            cvFile, disk, verify, fatal, orig, wrote, prog, final_state,
            requests, script, generation, runs, files, roadmap>>

\* What the other programs of the repository hold.
sideVars == <<generation, runs, files, roadmap>>

\* What the caller of the engines holds beside the run.
callVars == <<prog, final_state, requests, script, sideVars>>

vars == <<gwVars, wfVars>>

----------------------------------------------------------------------------
(* The text-generation backend.                                            *)

\* Exceptions of model.generate_content, by the except clause that takes them:
\*   transient: ResourceExhausted, ServiceUnavailable
\*   permanent: NotFound, PermissionDenied, InvalidArgument
\*   unknown:   any other Exception
ErrorClasses == {"transient", "permanent", "unknown"}

\* What response.text holds when the call succeeds.
TextKinds == {"json", "fenced", "garbage", "empty"}

Outcomes == ErrorClasses \cup TextKinds

NoResult == [kind |-> "none", src |-> "-", text |-> "-", err |-> "-", of |-> "-"]

\* A response of model m whose text is of kind t.
Response(m, t) == [kind |-> "response", src |-> m, text |-> t, err |-> "-", of |-> "-"]

\* The literal "" that a gateway returns without any model having produced it.
EmptyString == [kind |-> "response", src |-> "-", text |-> "empty", err |-> "-", of |-> "-"]

\* An exception e leaving the gateway, raised for the call's outcome o.
Raised(e, o) == [kind |-> "exception", src |-> "-", text |-> "-", err |-> e, of |-> o]

\* One entry of gwLog: a call of model m that ended in outcome o, issued by the
\* loop ("list") or after it ("fallback"); a time.sleep(n) of an except clause
\* ("except") or after the loop ("after_loop").
CallEv(m, o, w) == [ev |-> "call", model |-> m, outcome |-> o, at |-> w, secs |-> 0]

SleepEv(n, w) == [ev |-> "sleep", model |-> "-", outcome |-> "-", at |-> w, secs |-> n]

----------------------------------------------------------------------------
(* gap_analysis_engine.generate_safe                                       *)

MODEL_PRIORITY_LIST ==
    << "models/gemini-2.0-flash-lite", "models/gemini-2.0-flash",
       "models/gemini-flash-latest", "models/gemini-2.0-flash-exp",
       "models/gemini-pro-latest" >>

generate_safe_fallback_model == "models/gemini-flash-latest"

generate_safe_brief_pause == 1

generate_safe_cooldown == 60

\* Seconds slept by the except clause that takes outcome o (0: none).
generate_safe_except(o) ==
    IF o = "transient" THEN generate_safe_brief_pause ELSE 0

\* generate_safe_final with the bug of starting the final retry over on failure.
generate_safe_final_again(o) ==
    [phase |-> "exhausted", result |-> NoResult]

\* The final try/except: any exception becomes RuntimeError("Final retry failed").
generate_safe_final(o) ==
    [phase |-> "raised", result |-> Raised("RuntimeError: Final retry failed", o)]

----------------------------------------------------------------------------
(* cv_generator.CVGenerator._get_gemini_response                           *)

CVGenerator_model_priority ==
    << "models/gemini-2.0-flash", "models/gemini-2.0-flash-lite",
       "models/gemini-flash-latest", "models/gemini-pro" >>

CVGenerator_fallback_model == "models/gemini-2.0-flash-lite"

CVGenerator_brief_pause == 1

CVGenerator_cooldown == 60

CVGenerator_except(o) ==
    IF o = "transient" THEN CVGenerator_brief_pause ELSE 0

\* The final call is not guarded: its exception leaves the function as it is.
CVGenerator_final(o) ==
    [phase |-> "raised", result |-> Raised(o, o)]

----------------------------------------------------------------------------
(* skill_verifier.SkillVerifier._get_gemini_response                       *)

SkillVerifier_model_priority ==
    << "models/gemini-2.0-flash-lite", "models/gemini-2.0-flash",
       "models/gemini-flash-latest", "models/gemini-pro-latest" >>

SkillVerifier_fallback_model == "models/gemini-2.0-flash-lite"

SkillVerifier_quota_wait == 10

SkillVerifier_cooldown == 60

\* SkillVerifier_except with the bug of waiting after every kind of failure.
SkillVerifier_except_any(o) == SkillVerifier_quota_wait

SkillVerifier_except(o) ==
    IF o = "transient" THEN SkillVerifier_quota_wait ELSE 0

\* The final try/except prints the exception and returns "".
SkillVerifier_final(o) ==
    [phase |-> "returned", result |-> EmptyString]

----------------------------------------------------------------------------
(* The shape the three gateways share: a for loop over the priority list   *)
(* with a try/except around one call, then a sleep, then one more call.    *)

\* LoopIteration with the bug of passing over the next model after a failure.
LoopIteration_skipping(list, o, pause) ==
    LET m == list[gwIdx]
        called == Append(gwLog, CallEv(m, o, "list"))
    IN  IF o \in TextKinds
        THEN /\ gwLog' = called
             /\ gwPhase' = "returned"
             /\ gwResult' = Response(m, o)
             /\ gwIdx' = gwIdx
        ELSE /\ gwLog' = IF pause > 0 THEN Append(called, SleepEv(pause, "except")) ELSE called
             /\ gwIdx' = gwIdx + 2
             /\ gwPhase' = IF gwIdx + 2 > Len(list) THEN "exhausted" ELSE "list"
             /\ gwResult' = gwResult

\* One iteration of the loop: the call of list[gwIdx] ends in outcome o, and
\* the except clause taking o sleeps `pause` seconds before `continue`.
LoopIteration(list, o, pause) ==
    LET m == list[gwIdx]
        called == Append(gwLog, CallEv(m, o, "list"))
    IN  IF o \in TextKinds
        THEN /\ gwLog' = called
             /\ gwPhase' = "returned"
             /\ gwResult' = Response(m, o)
             /\ gwIdx' = gwIdx
        ELSE /\ gwLog' = IF pause > 0 THEN Append(called, SleepEv(pause, "except")) ELSE called
             /\ gwIdx' = gwIdx + 1
             /\ gwPhase' = IF gwIdx + 1 > Len(list) THEN "exhausted" ELSE "list"
             /\ gwResult' = gwResult

\* Cooldown with the bug of going to the final attempt without sleeping.
Cooldown_skipped(secs) ==
    /\ gwPhase = "exhausted"
    /\ gwLog' = gwLog
    /\ gwPhase' = "fallback"
    /\ UNCHANGED <<gwImpl, gwIdx, gwResult>>

\* The loop ended without a return: time.sleep(secs).
Cooldown(secs) ==
    /\ gwPhase = "exhausted"
    /\ gwLog' = Append(gwLog, SleepEv(secs, "after_loop"))
    /\ gwPhase' = "fallback"
    /\ UNCHANGED <<gwImpl, gwIdx, gwResult>>

\* The last call, of model m, ending in outcome o; `final` is what the
\* function does with a failure.
FinalAttempt(m, o, final) ==
    /\ gwPhase = "fallback"
    /\ gwLog' = Append(gwLog, CallEv(m, o, "fallback"))
    /\ IF o \in TextKinds
       THEN gwPhase' = "returned" /\ gwResult' = Response(m, o)
       ELSE gwPhase' = final.phase /\ gwResult' = final.result
    /\ UNCHANGED <<gwImpl, gwIdx>>

generate_safe_loop ==
    /\ gwImpl = "generate_safe" /\ gwPhase = "list"
    /\ \E o \in Outcomes :
         LoopIteration(MODEL_PRIORITY_LIST, o, generate_safe_except(o))
    /\ UNCHANGED gwImpl

generate_safe_sleep ==
    /\ gwImpl = "generate_safe"
    /\ Cooldown(generate_safe_cooldown)

generate_safe_retry ==
    /\ gwImpl = "generate_safe"
    /\ \E o \in Outcomes :
         FinalAttempt(generate_safe_fallback_model, o, generate_safe_final(o))

CVGenerator_loop ==
    /\ gwImpl = "CVGenerator" /\ gwPhase = "list"
    /\ \E o \in Outcomes :
         LoopIteration(CVGenerator_model_priority, o, CVGenerator_except(o))
    /\ UNCHANGED gwImpl

CVGenerator_sleep ==
    /\ gwImpl = "CVGenerator"
    /\ Cooldown(CVGenerator_cooldown)

CVGenerator_retry ==
    /\ gwImpl = "CVGenerator"
    /\ \E o \in Outcomes :
         FinalAttempt(CVGenerator_fallback_model, o, CVGenerator_final(o))

SkillVerifier_loop ==
    /\ gwImpl = "SkillVerifier" /\ gwPhase = "list"
    /\ \E o \in Outcomes :
         LoopIteration(SkillVerifier_model_priority, o, SkillVerifier_except(o))
    /\ UNCHANGED gwImpl

SkillVerifier_sleep ==
    /\ gwImpl = "SkillVerifier"
    /\ Cooldown(SkillVerifier_cooldown)

SkillVerifier_retry ==
    /\ gwImpl = "SkillVerifier"
    /\ \E o \in Outcomes :
         FinalAttempt(SkillVerifier_fallback_model, o, SkillVerifier_final(o))

GatewayStep ==
    \/ generate_safe_loop \/ generate_safe_sleep \/ generate_safe_retry
    \/ CVGenerator_loop \/ CVGenerator_sleep \/ CVGenerator_retry
    \/ SkillVerifier_loop \/ SkillVerifier_sleep \/ SkillVerifier_retry

\* The state a call of gateway function `impl` starts in.
GatewayEntered(impl) ==
    /\ gwImpl' = impl
    /\ gwPhase' = "list"
    /\ gwIdx' = 1
    /\ gwLog' = << >>
    /\ gwResult' = NoResult

GatewayIdle ==
    /\ gwImpl = "none" /\ gwPhase = "idle" /\ gwIdx = 0
    /\ gwLog = << >> /\ gwResult = NoResult

GatewayLeft ==
    /\ gwImpl' = "none" /\ gwPhase' = "idle" /\ gwIdx' = 0
    /\ gwLog' = << >> /\ gwResult' = NoResult

----------------------------------------------------------------------------
(* The run state and the values its fields hold.                           *)

\* A text of ws + body characters: body from the first to the last character
\* that is not whitespace, ws whitespace characters around it. len(t) is
\* ws + body and len(t.strip()) is body.
CvText(ws, body) == [ws |-> ws, body |-> body]

EmptyText == CvText(0, 0)

TextLen(t) == t.ws + t.body

StripLen(t) == t.body

\* nlp_analyzer.extract_data_node: len(cv_text.strip()) < 50
MIN_CV_CHARS == 50

\* The most whitespace the modelled documents carry around their text.
MaxPadding == 1

DocumentTexts ==
    { CvText(ws, body) : ws \in 0..MaxPadding,
                         body \in {0, MIN_CV_CHARS - 1, MIN_CV_CHARS} }

InputFiles ==
    [ext : {".txt", ".pdf", ".docx"}, readable : BOOLEAN, text : DocumentTexts]

\* A string the code takes apart is a sequence of its characters; a run of
\* letters and digits that the code never splits is one element.
JobTitles == { <<"Backend", " ", "Engineer">> }

Templates == { <<"template", "_", "1", ".tex">> }

\* str.isalnum() of one element.
IsAlnum(c) == c \notin {" ", "_", "-", ".", "/", ".tex", ".pdf"}

RECURSIVE LStrip(_)
LStrip(t) == IF t # << >> /\ Head(t) = " " THEN LStrip(Tail(t)) ELSE t

RECURSIVE RStrip(_)
RStrip(t) ==
    IF t # << >> /\ t[Len(t)] = " " THEN RStrip(SubSeq(t, 1, Len(t) - 1)) ELSE t

\* str.strip()
Strip(t) == RStrip(LStrip(t))

\* str.replace(old, new) for a one-element old
Replace(t, old, new) ==
    [i \in 1..Len(t) |-> IF t[i] = old THEN new ELSE t[i]]

\* str.replace(old, "") for a one-element old
Remove(t, old) == SelectSeq(t, LAMBDA c : c # old)

NoName == << "<None>" >>

UNKNOWN_CANDIDATE == << "Unknown", "_", "Candidate" >>

\* None for a field holding a path, and the two artifacts' paths.
NoPath == [kind |-> "None", a |-> << >>, b |-> << >>]

\* structured_cv_data: None, or the object the model's JSON denotes. keys are
\* the keys the object has; name and skills are their values when present.
NoProfile == [isNone |-> TRUE, isDict |-> FALSE, keys |-> {}, name |-> << >>, skills |-> << >>]

Profile(keys, name, skills) ==
    [isNone |-> FALSE, isDict |-> TRUE, keys |-> keys, name |-> name, skills |-> skills]

\* A JSON value that is no object (a list, a string, a number).
NotAnObject == [isNone |-> FALSE, isDict |-> FALSE, keys |-> {}, name |-> << >>, skills |-> << >>]

ProfilePayloads ==
    { Profile({"name", "summary", "experience", "skills", "education"}, <<"Ana", " ", "Li">>, <<"Python", "Go">>),
      Profile({"summary", "skills"}, << >>, <<"Python">>),
      Profile({"name", "summary"}, <<"Ana">>, << >>),
      NotAnObject }

\* skill_report: None, or the object the model's JSON denotes, or the record
\* analyze_skill_gap_node substitutes.
NoReport == [isNone |-> TRUE, summary |-> "", matching |-> << >>, missing |-> << >>, raw |-> "-"]

Report(summary, matching, missing) ==
    [isNone |-> FALSE, summary |-> summary, matching |-> matching, missing |-> missing, raw |-> "-"]

ReportPayloads ==
    { Report("fit", <<"Python">>, << >>),
      Report("gap", << >>, <<"python">>),
      Report("gap", <<"Python">>, <<"Go", "SQL">>),
      Report("gap", <<"Python">>, <<"Go", "SQL", "Rust", "Java", "Kafka">>) }

\* A list-valued field: None or a list.
NoList == [isNone |-> TRUE, items |-> << >>]

List(items) == [isNone |-> FALSE, items |-> items]

Keys ==
    {"cv_file_path", "job_title", "cv_text", "job_requirements", "skill_report",
     "pdf_path", "structured_cv_data", "user_name", "new_skills_to_add",
     "skills_for_roadmap", "template_selection", "final_cv_tex_path"}

\* main.run_terminal_orchestration: initial_input. job_requirements is not
\* passed, so the key is absent until its node writes it.
InitialInput(file, job_title, template_choice) ==
    [cv_file_path |-> file.ext,
     job_title |-> job_title,
     cv_text |-> EmptyText,
     job_requirements |-> "<absent>",
     skill_report |-> NoReport,
     pdf_path |-> NoPath,
     structured_cv_data |-> NoProfile,
     user_name |-> NoName,
     new_skills_to_add |-> NoList,
     skills_for_roadmap |-> NoList,
     template_selection |-> template_choice,
     final_cv_tex_path |-> NoPath]

\* The state before any run: no field holds anything.
BlankState == InitialInput([ext |-> "", readable |-> FALSE, text |-> EmptyText], << >>, << >>)

\* A local variable of the caller that holds a state: not assigned yet, or
\* assigned s.
Unbound == [bound |-> FALSE, value |-> BlankState]

Bound(s) == [bound |-> TRUE, value |-> s]

NoFile == [ext |-> "", readable |-> FALSE, text |-> EmptyText]

NoUpdate == << >>

\* verify_skills_with_user: the questions, the index of the one being asked,
\* skills_to_add_to_cv, skills_for_roadmap, the last input and the valid
\* inputs so far; reprompts counts the invalid ones.
NoVerify ==
    [questions |-> << >>, i |-> 0, add |-> << >>, roadmap |-> << >>,
     reprompts |-> 0, choice |-> "-", answers |-> << >>]

\* The locals of cv_generator's __main__ (selected_template, cv_data, and the
\* raw_response inside extract_structured_data) and of skill_verifier's
\* __main__ (the lines of the report read, extracted_missing_skills);
\* missing is the list the report was rendered from.
NoScript ==
    [selected_template |-> << >>, cv_data |-> NoProfile, raw_response |-> NoResult,
     lines |-> << >>, extracted_missing_skills |-> << >>, missing |-> << >>]

\* history: no fatal error so far.
NoFatal == [stage |-> "-", cause |-> "-"]

Fatal(stage, cause) == [stage |-> stage, cause |-> cause]

----------------------------------------------------------------------------
(* The graph: gap_workflow.build_gap_analysis_graph                        *)

END == "__end__"

ENTRY_POINT == "read_cv"

EDGES ==
    { <<"read_cv", "extract_data">>,
      <<"extract_data", "generate_job_requirements">>,
      <<"generate_job_requirements", "analyze_skill_gap">>,
      <<"analyze_skill_gap", "generate_pdf">>,
      <<"generate_pdf", "verify_skills">>,
      <<"verify_skills", "render_final_cv">>,
      <<"render_final_cv", END>> }

\* Successor with the bug of an edge from extract_data to analyze_skill_gap.
Successor_skipping(n) ==
    IF n = "extract_data"
    THEN "analyze_skill_gap"
    ELSE CHOOSE m \in {e[2] : e \in EDGES} : <<n, m>> \in EDGES

\* The node the compiled graph runs after node n.
Successor(n) == CHOOSE m \in {e[2] : e \in EDGES} : <<n, m>> \in EDGES

\* The engine's merge of a node's update: the update's value wins per key.
Merge(s, u) == [k \in DOMAIN s |-> IF k \in DOMAIN u THEN u[k] ELSE s[k]]

----------------------------------------------------------------------------
(* What a node hands back to the engine.                                   *)

Returns(u) == [tag |-> "return", update |-> u, err |-> "-"]

Raises(e) == [tag |-> "raise", update |-> NoUpdate, err |-> e]

\* The engine calls node n: it is the node the graph is at.
EngineStarts(n) ==
    /\ wfPc = "ready"
    /\ wfNode = n
    /\ started' = Append(started, n)

\* The node function ends with outcome r: a returned update is pending until
\* the engine merges it, an exception leaves the node.
NodeEnds(r) ==
    /\ wfPc' = IF r.tag = "return" THEN "returned" ELSE "raised"
    /\ wfUpdate' = r.update
    /\ wfError' = r.err

\* history: stage met a fatal error of this cause ("-": it met none).
Notes(stage, cause) ==
    fatal' = IF cause # "-" /\ fatal = NoFatal THEN Fatal(stage, cause) ELSE fatal

----------------------------------------------------------------------------
(* main.run_terminal_orchestration                                         *)

\* The inputs are read, the file is found and invoke() is entered with the
\* initial state; a path that does not exist ends the function before that.
run_terminal_orchestration ==
    /\ wfPc = "idle"
    /\ prog = "-"
    /\ GatewayIdle
    /\ \E file \in InputFiles, job_title \in JobTitles,
          template_choice \in Templates, exists \in BOOLEAN :
         IF exists
         THEN /\ cvFile' = file
              /\ state' = InitialInput(file, job_title, template_choice)
              /\ orig' = InitialInput(file, job_title, template_choice)
              /\ wfNode' = ENTRY_POINT
              /\ wfPc' = "ready"
              /\ reported' = reported
         ELSE /\ reported' = "Error: File not found"
              /\ wfPc' = "rejected"
              /\ UNCHANGED <<cvFile, state, orig, wfNode>>
    /\ prog' = "main"
    /\ UNCHANGED <<gwVars, wfUpdate, wfError, started, merged, disk, verify,
                   fatal, wrote, final_state, requests, script, sideVars>>

\* run_terminal_orchestration_except with the bug of clearing away what the
\* failed run wrote.
run_terminal_orchestration_except_cleanup ==
    /\ wfPc = "raised"
    /\ wfPc' = "failed"
    /\ reported' = wfError
    /\ disk' = {}
    /\ UNCHANGED <<gwVars, state, wfNode, wfUpdate, wfError, started, merged,
                   cvFile, callVars, verify, fatal, orig, wrote>>

\* The except clause around invoke(): the exception is printed.
run_terminal_orchestration_except ==
    /\ wfPc = "raised"
    /\ wfPc' = "failed"
    /\ reported' = wfError
    /\ UNCHANGED <<gwVars, state, wfNode, wfUpdate, wfError, started, merged,
                   cvFile, callVars, disk, verify, fatal, orig, wrote>>

----------------------------------------------------------------------------
(* nlp_analyzer.cv_reader_node                                             *)

cv_reader_result(cv_path, file) ==
    IF cv_path = ".txt"
    THEN IF ~file.readable
         THEN Raises("RuntimeError: Failed to read TXT file")
         ELSE Returns("cv_text" :> file.text)
    ELSE IF cv_path = ".pdf"
    THEN IF ~file.readable
         THEN Raises("RuntimeError: Failed to read PDF file")
         ELSE IF StripLen(file.text) = 0
         THEN Raises("RuntimeError: Failed to read PDF file: no text could be extracted")
         ELSE Returns("cv_text" :> file.text)
    ELSE Raises("ValueError: Unsupported file type")

cv_reader_node ==
    /\ EngineStarts("read_cv")
    /\ LET r == cv_reader_result(state.cv_file_path, cvFile)
       IN  /\ NodeEnds(r)
           /\ Notes("read_cv",
                    IF state.cv_file_path \notin {".txt", ".pdf"} THEN "UnsupportedFormat"
                    ELSE IF ~cvFile.readable THEN "ReadError"
                    ELSE IF state.cv_file_path = ".pdf" /\ StripLen(cvFile.text) = 0
                    THEN "EmptyContent" ELSE "-")
    /\ UNCHANGED <<gwVars, state, wfNode, merged, reported, cvFile, callVars, disk,
                   verify, orig, wrote>>

----------------------------------------------------------------------------
(* nlp_analyzer.extract_data_node                                          *)

\* text.replace("```json", "").replace("```", "").strip()
RemoveFences(kind) == IF kind = "fenced" THEN "json" ELSE kind

\* json.loads succeeds
JsonLoads(kind) == kind = "json"

\* TooShort with the bug of measuring the text as it was read.
TooShort_unstripped(cv_text) == TextLen(cv_text) < MIN_CV_CHARS

\* not cv_text or len(cv_text.strip()) < 50
TooShort(cv_text) == TextLen(cv_text) = 0 \/ StripLen(cv_text) < MIN_CV_CHARS

\* extract_data_result with the bug of substituting an empty profile for
\* output that does not parse, as CVGenerator.extract_structured_data does.
extract_data_result_fallback(cv_text, o, p) ==
    IF TooShort(cv_text)
    THEN Raises("RuntimeError: Cannot process CV: Raw CV text is empty or too short")
    ELSE IF o \in ErrorClasses
    THEN Raises(o)
    ELSE IF ~JsonLoads(RemoveFences(o)) \/ ~p.isDict
    THEN Returns("structured_cv_data" :> Profile({"skills"}, << >>, << >>) @@
                 "user_name" :> UNKNOWN_CANDIDATE)
    ELSE Returns("structured_cv_data" :> p @@
                 "user_name" :> (IF "name" \in p.keys THEN p.name ELSE UNKNOWN_CANDIDATE))

\* The node on cv_text, with the model call ending in outcome o and, when its
\* text is JSON, denoting payload p.
extract_data_result(cv_text, o, p) ==
    IF TooShort(cv_text)
    THEN Raises("RuntimeError: Cannot process CV: Raw CV text is empty or too short")
    ELSE IF o \in ErrorClasses
    THEN Raises(o)
    ELSE IF ~JsonLoads(RemoveFences(o)) \/ ~p.isDict
    THEN Raises("RuntimeError: LLM failed to generate valid structured CV JSON")
    ELSE Returns("structured_cv_data" :> p @@
                 "user_name" :> (IF "name" \in p.keys THEN p.name ELSE UNKNOWN_CANDIDATE))

\* nlp_analyzer.MODEL_NAME
MODEL_NAME == "models/gemini-2.5-flash"

\* The requests the node issues: one generate_content(prompt) of MODEL_NAME,
\* ending in outcome o, once the length check has passed.
extract_data_requests(cv_text, o) ==
    IF TooShort(cv_text) THEN << >> ELSE << CallEv(MODEL_NAME, o, "direct") >>

extract_data_node ==
    /\ EngineStarts("extract_data")
    /\ \E o \in Outcomes, p \in ProfilePayloads :
         /\ NodeEnds(extract_data_result(state.cv_text, o, p))
         /\ Notes("extract_data",
                  IF TextLen(state.cv_text) = 0 \/ StripLen(state.cv_text) < MIN_CV_CHARS
                  THEN "EmptyContent"
                  ELSE IF o \in ErrorClasses THEN "ModelCall"
                  ELSE IF o \in {"garbage", "empty"} \/ ~p.isDict THEN "ParseError"
                  ELSE "-")
         /\ requests' = extract_data_requests(state.cv_text, o)
    /\ UNCHANGED <<gwVars, state, wfNode, merged, reported, cvFile, disk,
                   verify, orig, wrote, prog, final_state, script, sideVars>>

----------------------------------------------------------------------------
(* gap_analysis_engine: the three nodes                                    *)

\* The gateway's last attempt failed in this invocation.
GatewayExhausted ==
    /\ gwLog # << >>
    /\ gwLog[Len(gwLog)].at = "fallback"
    /\ gwLog[Len(gwLog)].outcome \in ErrorClasses

\* response.text.strip(): "" for an empty or whitespace-only text
StripText(kind) == IF kind = "empty" THEN "" ELSE kind

\* The node enters generate_safe(prompt).
generate_job_requirements_call ==
    /\ EngineStarts("generate_job_requirements")
    /\ GatewayEntered("generate_safe")
    /\ wfPc' = "gateway"
    /\ UNCHANGED <<state, wfNode, wfUpdate, wfError, merged, reported, cvFile, callVars,
                   disk, verify, fatal, orig, wrote>>

\* generate_safe is back: the node stores the text and returns the state.
generate_job_requirements_result(s, result) ==
    IF result.kind = "exception"
    THEN Raises(result.err)
    ELSE Returns([s EXCEPT !.job_requirements = StripText(result.text)])

generate_job_requirements_node ==
    /\ wfPc = "gateway"
    /\ wfNode = "generate_job_requirements"
    /\ gwPhase \in {"returned", "raised"}
    /\ NodeEnds(generate_job_requirements_result(state, gwResult))
    /\ Notes("generate_job_requirements",
             IF GatewayExhausted THEN "GatewayExhausted" ELSE "-")
    /\ GatewayLeft
    /\ UNCHANGED <<state, wfNode, started, merged, reported, cvFile, callVars, disk,
                   verify, orig, wrote>>

analyze_skill_gap_call ==
    /\ EngineStarts("analyze_skill_gap")
    /\ GatewayEntered("generate_safe")
    /\ wfPc' = "gateway"
    /\ UNCHANGED <<state, wfNode, wfUpdate, wfError, merged, reported, cvFile, callVars,
                   disk, verify, fatal, orig, wrote>>

\* if raw.startswith("```json") ... elif raw.startswith("```") ...
StripLeadingFence(kind) == IF kind = "fenced" THEN "json" ELSE kind

\* The record substituted for a response that is not JSON.
ErrorReport(raw) ==
    [isNone |-> FALSE, summary |-> "Error parsing JSON response.",
     matching |-> << >>, missing |-> << >>, raw |-> raw]

analyze_skill_gap_result(s, result, p) ==
    IF result.kind = "exception"
    THEN Raises(result.err)
    ELSE LET raw == StripLeadingFence(StripText(result.text))
         IN  Returns([s EXCEPT !.skill_report =
                        IF JsonLoads(raw) THEN p ELSE ErrorReport(raw)])

analyze_skill_gap_node ==
    /\ wfPc = "gateway"
    /\ wfNode = "analyze_skill_gap"
    /\ gwPhase \in {"returned", "raised"}
    /\ \E p \in ReportPayloads :
         NodeEnds(analyze_skill_gap_result(state, gwResult, p))
    /\ Notes("analyze_skill_gap",
             IF GatewayExhausted THEN "GatewayExhausted"
             ELSE IF gwResult.text \in {"garbage", "empty"} THEN "ParseError"
             ELSE "-")
    /\ GatewayLeft
    /\ UNCHANGED <<state, wfNode, started, merged, reported, cvFile, callVars, disk,
                   verify, orig, wrote>>

\* "".join([c for c in job_title if c.isalnum() or c in (' ', '_')]).strip()
SafeTitle(job_title) ==
    Strip(SelectSeq(job_title, LAMBDA c : IsAlnum(c) \/ c \in {" ", "_"}))

\* f"Skill_Report_{safe_title.replace(' ', '_')}.pdf"
ReportFilename(job_title) ==
    [kind |-> "Skill_Report", a |-> Replace(SafeTitle(job_title), " ", "_"), b |-> <<".pdf">>]

\* The report is written and its path is left out of the update.
generate_report_pdf_node_pathless ==
    /\ EngineStarts("generate_pdf")
    /\ disk' = disk \cup {ReportFilename(state.job_title)}
    /\ NodeEnds(Returns(state))
    /\ UNCHANGED <<gwVars, state, wfNode, merged, reported, cvFile, callVars, verify,
                   fatal, orig, wrote>>

generate_report_pdf_node ==
    /\ EngineStarts("generate_pdf")
    /\ LET filename == ReportFilename(state.job_title)
       IN  /\ disk' = disk \cup {filename}
           /\ NodeEnds(Returns([state EXCEPT !.pdf_path = filename]))
    /\ UNCHANGED <<gwVars, state, wfNode, merged, reported, cvFile, callVars, verify,
                   fatal, orig, wrote>>

----------------------------------------------------------------------------
(* skill_verifier.SkillVerifier: generate_questions, verify_skills_with_user *)
(* and the node of the graph that calls them.                              *)

\* The most invalid answers the modelled user types during one run.
MaxReprompts == 1

RECURSIVE Reverse(_)
Reverse(t) == IF t = << >> THEN << >> ELSE Append(Reverse(Tail(t)), Head(t))

\* The lists of questions (each stood for by its "skill") a JSON response to
\* the prompt for missing_skills may denote.
QuestionPayloads(missing_skills) ==
    { missing_skills, Reverse(missing_skills),
      SubSeq(missing_skills, 1, Len(missing_skills) - 1) }

\* The node reads the report's missing skills and calls generate_questions,
\* which returns [] at once for an empty list and asks the gateway otherwise.
skill_verification_call ==
    /\ EngineStarts("verify_skills")
    /\ IF state.skill_report.missing = << >>
       THEN /\ wfPc' = "asking"
            /\ verify' = [NoVerify EXCEPT !.i = 1]
            /\ UNCHANGED gwVars
       ELSE /\ wfPc' = "gateway"
            /\ GatewayEntered("SkillVerifier")
            /\ UNCHANGED verify
    /\ UNCHANGED <<state, wfNode, wfUpdate, wfError, merged, reported, cvFile, callVars,
                   disk, fatal, orig, wrote>>

\* generate_questions once _get_gemini_response is back with raw_text.
generate_questions_result(raw_text, payload) ==
    IF raw_text = "empty"
    THEN << >>
    ELSE IF JsonLoads(RemoveFences(raw_text)) THEN payload ELSE << >>

generate_questions ==
    /\ wfPc = "gateway"
    /\ wfNode = "verify_skills"
    /\ gwPhase \in {"returned", "raised"}
    /\ IF gwResult.kind = "exception"
       THEN /\ NodeEnds(Raises(gwResult.err))
            /\ UNCHANGED verify
       ELSE /\ \E payload \in QuestionPayloads(state.skill_report.missing) :
                 verify' = [NoVerify EXCEPT
                              !.questions = generate_questions_result(gwResult.text, payload),
                              !.i = 1]
            /\ wfPc' = "asking"
            /\ UNCHANGED <<wfUpdate, wfError>>
    /\ Notes("verify_skills",
             IF GatewayExhausted THEN "GatewayExhausted"
             ELSE IF gwResult.text = "garbage" THEN "ParseError"
             ELSE "-")
    /\ GatewayLeft
    /\ UNCHANGED <<state, wfNode, started, merged, reported, cvFile, callVars, disk,
                   orig, wrote>>

\* verify_skills_with_user_input with the bug of taking every input that is
\* not "1" for a no.
verify_skills_with_user_input_lenient(v, choice) ==
    IF choice = "1"
    THEN [v EXCEPT !.add = Append(@, v.questions[v.i]), !.i = @ + 1,
                   !.choice = choice, !.answers = Append(@, choice)]
    ELSE [v EXCEPT !.roadmap = Append(@, v.questions[v.i]), !.i = @ + 1,
                   !.choice = choice, !.answers = Append(@, "2")]

\* verify_skills_with_user_input with the bug of appending a declined skill
\* to the list of the confirmed ones.
verify_skills_with_user_input_misfiled(v, choice) ==
    IF choice \in {"1", "2"}
    THEN [v EXCEPT !.add = Append(@, v.questions[v.i]), !.i = @ + 1,
                   !.choice = choice, !.answers = Append(@, choice)]
    ELSE [v EXCEPT !.reprompts = @ + 1, !.choice = choice]

\* Choice 2 is taken and the loop is not left: the question is asked again.
verify_skills_with_user_input_stuck(v, choice) ==
    IF choice = "1"
    THEN [v EXCEPT !.add = Append(@, v.questions[v.i]), !.i = @ + 1,
                   !.choice = choice, !.answers = Append(@, choice)]
    ELSE IF choice = "2"
    THEN [v EXCEPT !.choice = choice]
    ELSE [v EXCEPT !.reprompts = @ + 1, !.choice = choice]

\* One input() of the while loop for the question at position i.
verify_skills_with_user_input(v, choice) ==
    IF choice = "1"
    THEN [v EXCEPT !.add = Append(@, v.questions[v.i]), !.i = @ + 1,
                   !.choice = choice, !.answers = Append(@, choice)]
    ELSE IF choice = "2"
    THEN [v EXCEPT !.roadmap = Append(@, v.questions[v.i]), !.i = @ + 1,
                   !.choice = choice, !.answers = Append(@, choice)]
    ELSE [v EXCEPT !.reprompts = @ + 1, !.choice = choice]

verify_skills_with_user ==
    /\ wfPc = "asking"
    /\ verify.i <= Len(verify.questions)
    /\ \E choice \in {"1", "2", "other"} :
         /\ choice = "other" => verify.reprompts < MaxReprompts
         /\ verify' = verify_skills_with_user_input(verify, choice)
    /\ UNCHANGED <<gwVars, state, wfPc, wfNode, wfUpdate, wfError, started,
                   merged, reported, cvFile, callVars, disk, fatal, orig, wrote>>

\* The invalid answers past the ones the model counts: the while loop takes
\* any number of them, and each one asks the same question again.
verify_skills_with_user_again ==
    /\ wfPc = "asking"
    /\ verify.i <= Len(verify.questions)
    /\ verify.reprompts = MaxReprompts
    /\ verify' = [verify_skills_with_user_input(verify, "other")
                    EXCEPT !.reprompts = MaxReprompts]
    /\ UNCHANGED <<gwVars, state, wfPc, wfNode, wfUpdate, wfError, started,
                   merged, reported, cvFile, callVars, disk, fatal, orig, wrote>>

\* The user types a valid choice.
ValidInput == verify_skills_with_user /\ verify'.choice \in {"1", "2"}

\* Every question is answered: the node returns the two lists.
skill_verification_node ==
    /\ wfPc = "asking"
    /\ wfNode = "verify_skills"
    /\ verify.i > Len(verify.questions)
    /\ NodeEnds(Returns("new_skills_to_add" :> List(verify.add) @@
                        "skills_for_roadmap" :> List(verify.roadmap)))
    /\ verify' = NoVerify
    /\ UNCHANGED <<gwVars, state, wfNode, started, merged, reported, cvFile, callVars,
                   disk, fatal, orig, wrote>>

----------------------------------------------------------------------------
(* cv_generator.CVGenerator: inject_missing_skills, save_tex_file and the  *)
(* node of the graph that calls them.                                      *)

\* str.lower() on the skill names of the model
Lower(skill) ==
    CASE skill = "Python" -> "python"
      [] skill = "Go" -> "go"
      [] skill = "SQL" -> "sql"
      [] skill = "Rust" -> "rust"
      [] skill = "Java" -> "java"
      [] skill = "Kafka" -> "kafka"
      [] OTHER -> skill

\* Every new skill is appended, present already or not.
AppendNew_unchecked(skills, new_skills, current_skills_lower) ==
    skills \o new_skills

RECURSIVE AppendNew(_, _, _)
\* for skill in new_skills: if skill.lower() not in current_skills_lower: append
AppendNew(skills, new_skills, current_skills_lower) ==
    IF new_skills = << >>
    THEN skills
    ELSE AppendNew(IF Lower(Head(new_skills)) \notin current_skills_lower
                   THEN Append(skills, Head(new_skills)) ELSE skills,
                   Tail(new_skills), current_skills_lower)

\* The "skills" key is ensured before new_skills is looked at.
inject_missing_skills_eager(structured_data, new_skills) ==
    LET skills == IF "skills" \in structured_data.keys
                  THEN structured_data.skills ELSE << >>
        current_skills_lower == {Lower(skills[i]) : i \in 1..Len(skills)}
    IN  [structured_data EXCEPT
           !.keys = @ \cup {"skills"},
           !.skills = IF new_skills.isNone THEN skills
                      ELSE AppendNew(skills, new_skills.items, current_skills_lower)]

\* The dictionary structured_data after the call: the method changes it in
\* place and returns it.
inject_missing_skills(structured_data, new_skills) ==
    IF new_skills.isNone \/ new_skills.items = << >>
    THEN structured_data
    ELSE LET skills == IF "skills" \in structured_data.keys
                       THEN structured_data.skills ELSE << >>
             current_skills_lower == {Lower(skills[i]) : i \in 1..Len(skills)}
         IN  [structured_data EXCEPT
                !.keys = @ \cup {"skills"},
                !.skills = AppendNew(skills, new_skills.items, current_skills_lower)]

\* f"{OUTPUT_DIR}/{safe_name}_{t_name}_Optimized.tex"
save_tex_file(user_name, template_name) ==
    [kind |-> "Optimized.tex",
     a |-> Strip(SelectSeq(user_name, LAMBDA c : IsAlnum(c) \/ c = "_")),
     b |-> Remove(template_name, ".tex")]

\* The node injects the confirmed skills into the profile the state holds,
\* renders it (rendered: the template was found and filled) and saves it.
render_and_save_node ==
    /\ EngineStarts("render_final_cv")
    /\ state' = [state EXCEPT !.structured_cv_data =
                   inject_missing_skills(@, state.new_skills_to_add)]
    /\ \E rendered \in BOOLEAN :
         IF rendered
         THEN LET filename == save_tex_file(state.user_name, state.template_selection)
              IN  /\ disk' = disk \cup {filename}
                  /\ NodeEnds(Returns("final_cv_tex_path" :> filename))
                  /\ UNCHANGED fatal
         ELSE /\ NodeEnds(Raises("TemplateError"))
              /\ Notes("render_final_cv", "RenderError")
              /\ UNCHANGED disk
    /\ UNCHANGED <<gwVars, wfNode, merged, reported, cvFile, callVars, verify, orig, wrote>>

----------------------------------------------------------------------------
(* The engine between two nodes.                                           *)

\* The fields each node produces.
Produces(n) ==
    CASE n = "read_cv" -> {"cv_text"}
      [] n = "extract_data" -> {"structured_cv_data", "user_name"}
      [] n = "generate_job_requirements" -> {"job_requirements"}
      [] n = "analyze_skill_gap" -> {"skill_report"}
      [] n = "generate_pdf" -> {"pdf_path"}
      [] n = "verify_skills" -> {"new_skills_to_add", "skills_for_roadmap"}
      [] n = "render_final_cv" -> {"final_cv_tex_path"}
      [] OTHER -> {}

\* The node's update is written to the channels and the graph moves along the
\* node's edge; at END invoke() returns the state.
engine_merge ==
    /\ wfPc = "returned"
    /\ state' = Merge(state, wfUpdate)
    /\ merged' = Append(merged, wfNode)
    /\ wfNode' = Successor(wfNode)
    /\ wfPc' = IF Successor(wfNode) = END THEN "done" ELSE "ready"
    /\ wfUpdate' = NoUpdate
    /\ orig' = [k \in Keys |-> IF k \in Produces(wfNode)
                                THEN Merge(state, wfUpdate)[k] ELSE orig[k]]
    /\ wrote' = wrote \cup Produces(wfNode)
    /\ final_state' = IF Successor(wfNode) = END
                      THEN Bound(Merge(state, wfUpdate)) ELSE final_state
    /\ UNCHANGED <<gwVars, wfError, started, reported, cvFile, disk, verify,
                   fatal, prog, requests, script, sideVars>>

----------------------------------------------------------------------------
(* The report as text: what generate_report_pdf_node writes and what       *)
(* extract_missing_skills_from_pdf reads back, line by line.               *)

\* A skill whose name has 55 characters.
LONG_SKILL == "Designing distributed event-driven microservice systems"

\* The elements of a skill's text, for the skill the code would take apart.
SkillText(skill) ==
    IF skill = "Docker (none)"
    THEN << "Docker", " ", "(", "none", ")" >>
    ELSE << skill >>

\* The lines of the report's text: the title, the three headers, the
\* summary, and one "- skill" line per matching and per missing skill.
ReportLines(job_title, report) ==
    << << "Skill Gap Report: " >> \o job_title, << "Summary" >>,
       << report.summary >>, << "Matching Skills" >> >>
    \o [i \in 1..Len(report.matching) |->
           << "-", " " >> \o SkillText(report.matching[i])]
    \o << << "Missing Skills" >> >>
    \o [i \in 1..Len(report.missing) |->
           << "-", " " >> \o SkillText(report.missing[i])]

\* A report file: whether the path exists, whether PdfReader reads it, and
\* the lines of its text.
ReportFile(exists, readable, lines) ==
    [exists |-> exists, readable |-> readable, lines |-> lines]

RECURSIVE LStripBullet(_)
\* str.lstrip("-* ") with the bullet character for *
LStripBullet(t) ==
    IF t # << >> /\ Head(t) \in {"-", "<bullet>", " "}
    THEN LStripBullet(Tail(t)) ELSE t

RECURSIVE RemoveParentheticals(_)
\* re.sub(r'\s*\(.*?\)', '', raw_skill)
RemoveParentheticals(t) ==
    LET opens == {i \in 1..Len(t) : t[i] = "(" /\ \E j \in (i + 1)..Len(t) : t[j] = ")"}
    IN  IF opens = {}
        THEN t
        ELSE LET i == CHOOSE a \in opens : \A b \in opens : a <= b
                 j == CHOOSE a \in (i + 1)..Len(t) :
                        t[a] = ")" /\ \A b \in (i + 1)..(a - 1) : t[b] # ")"
             IN  RStrip(SubSeq(t, 1, i - 1)) \o RemoveParentheticals(SubSeq(t, j + 1, Len(t)))

RECURSIVE CharLen(_)
\* len() of a text
CharLen(t) == IF t = << >> THEN 0 ELSE Len(Head(t)) + CharLen(Tail(t))

RECURSIVE Join(_)
\* The text as one string.
Join(t) == IF t = << >> THEN "" ELSE Head(t) \o Join(Tail(t))

\* The bound on the skills taken from a report, and on a skill's length.
TOP_SKILLS == 4

MAX_SKILL_CHARS == 50

RECURSIVE CaptureSkills(_, _, _)
\* The for loop over the lines, from capture_mode and extracted_skills on.
CaptureSkills(lines, capture_mode, extracted_skills) ==
    IF lines = << >>
    THEN extracted_skills
    ELSE LET clean_line == Strip(Head(lines))
             starts(w) == clean_line # << >> /\ Head(clean_line) \in w
             simple_skill == Strip(RemoveParentheticals(Strip(LStripBullet(clean_line))))
         IN  IF (\E i \in 1..Len(clean_line) : clean_line[i] = "Missing Skills")
                /\ ~capture_mode
             THEN CaptureSkills(Tail(lines), TRUE, extracted_skills)
             ELSE IF capture_mode /\ starts({"Summary", "Matching Skills"})
             THEN extracted_skills
             ELSE IF capture_mode /\ starts({"-", "<bullet>"})
                     /\ simple_skill # << >> /\ CharLen(simple_skill) < MAX_SKILL_CHARS
             THEN CaptureSkills(Tail(lines), capture_mode,
                                Append(extracted_skills, Join(simple_skill)))
             ELSE CaptureSkills(Tail(lines), capture_mode, extracted_skills)

\* The skills of the report, at most the first four.
extract_missing_skills_from_pdf(pdf) ==
    IF ~pdf.exists \/ ~pdf.readable
    THEN << >>
    ELSE LET extracted_skills == CaptureSkills(pdf.lines, FALSE, << >>)
         IN  SubSeq(extracted_skills, 1,
                    IF Len(extracted_skills) < TOP_SKILLS
                    THEN Len(extracted_skills) ELSE TOP_SKILLS)

----------------------------------------------------------------------------
(* skill_verifier: the __main__ block, which reads the missing skills back *)
(* from the latest report file.                                            *)

\* The gap reports whose files the block may find.
RenderedReports ==
    { Report("gap", <<"Python">>, <<"Go", "SQL", "Rust", "Java", "Kafka">>),
      Report("gap", <<"Python">>, <<"Go", "Docker (none)">>),
      Report("gap", << >>, <<"Go", LONG_SKILL>>),
      Report("fit", <<"Python">>, << >>) }

\* The block finds the report, extracts the skills and enters
\* generate_questions, which enters the gateway; it ends at once when the
\* file is not there or no skill is extracted.
skill_verifier_main ==
    /\ wfPc = "idle"
    /\ prog = "-"
    /\ GatewayIdle
    /\ prog' = "skill_verifier"
    /\ \E report \in RenderedReports, job_title \in JobTitles,
          exists \in BOOLEAN, readable \in BOOLEAN :
         LET pdf == ReportFile(exists, readable, ReportLines(job_title, report))
             extracted_missing_skills == extract_missing_skills_from_pdf(pdf)
         IN  /\ script' = [script EXCEPT
                             !.lines = pdf.lines,
                             !.missing = report.missing,
                             !.extracted_missing_skills = extracted_missing_skills]
             /\ IF ~exists
                THEN /\ reported' = "PDF file not found."
                     /\ wfPc' = "exited"
                     /\ UNCHANGED gwVars
                ELSE IF extracted_missing_skills = << >>
                THEN /\ reported' = "No missing skills found in the PDF (or parsing failed)."
                     /\ wfPc' = "exited"
                     /\ UNCHANGED gwVars
                ELSE /\ GatewayEntered("SkillVerifier")
                     /\ wfPc' = "gateway"
                     /\ UNCHANGED reported
    /\ UNCHANGED <<state, wfNode, wfUpdate, wfError, started, merged, cvFile,
                   disk, verify, fatal, orig, wrote, final_state, requests, sideVars>>

\* generate_questions is back: with questions the block goes on to ask them.
skill_verifier_main_questions ==
    /\ prog = "skill_verifier"
    /\ wfPc = "gateway"
    /\ gwPhase \in {"returned", "raised"}
    /\ \E payload \in QuestionPayloads(script.extracted_missing_skills) :
         LET questions == generate_questions_result(gwResult.text, payload)
         IN  IF questions = << >>
             THEN /\ reported' = "Failed to generate questions."
                  /\ wfPc' = "exited"
                  /\ UNCHANGED verify
             ELSE /\ verify' = [NoVerify EXCEPT !.questions = questions, !.i = 1]
                  /\ wfPc' = "asking"
                  /\ UNCHANGED reported
    /\ GatewayLeft
    /\ UNCHANGED <<state, wfNode, wfUpdate, wfError, started, merged, cvFile,
                   disk, fatal, orig, wrote, callVars>>

\* verify_skills_with_user is back: the two lists are printed.
skill_verifier_main_output ==
    /\ prog = "skill_verifier"
    /\ wfPc = "asking"
    /\ verify.i > Len(verify.questions)
    /\ reported' = "FINAL OUTPUT"
    /\ wfPc' = "done"
    /\ UNCHANGED <<gwVars, state, wfNode, wfUpdate, wfError, started, merged,
                   cvFile, disk, verify, fatal, orig, wrote, callVars>>

----------------------------------------------------------------------------
(* cv_generator: extract_structured_data, render_cv and the __main__ block *)
(* that calls them on a PDF.                                               *)

\* The objects a JSON response to CV_STRUCTURING_PROMPT may denote; name is
\* the name under personal_info.
StructuringPayloads ==
    { Profile({"personal_info", "summary", "skills", "education", "experience",
               "projects", "leadership"}, <<"Ana", " ", "Li">>, <<"Python", "Go">>),
      Profile({"personal_info", "summary", "skills"}, <<"Ana">>, <<"Python">>),
      Profile({"summary"}, << >>, << >>),
      NotAnObject }

\* The "safe fallback" of the except clause.
ERROR_PARSING_DATA ==
    Profile({"personal_info", "skills", "education", "experience", "projects",
             "leadership"}, <<"Error", " ", "Parsing", " ", "Data">>, << >>)

\* What the method returns once _get_gemini_response has ended with result,
\* whose text, when JSON, denotes p: any exception inside the try, the
\* gateway's as json.loads's, is answered with the fallback record.
extract_structured_data_result(result, p) ==
    IF result.kind = "exception"
    THEN ERROR_PARSING_DATA
    ELSE IF JsonLoads(RemoveFences(result.text)) THEN p ELSE ERROR_PARSING_DATA

\* The block reads the inputs and the PDF and enters extract_structured_data,
\* which enters the gateway; without a readable PDF it exits.
cv_generator_main ==
    /\ wfPc = "idle"
    /\ prog = "-"
    /\ GatewayIdle
    /\ prog' = "cv_generator"
    /\ \E file \in InputFiles, selected_template \in Templates, exists \in BOOLEAN :
         IF exists /\ file.readable /\ file.ext = ".pdf"
         THEN /\ cvFile' = file
              /\ script' = [script EXCEPT !.selected_template = selected_template]
              /\ GatewayEntered("CVGenerator")
              /\ wfPc' = "gateway"
              /\ UNCHANGED reported
         ELSE /\ reported' = IF exists THEN "PDF Error" ELSE "File not found."
              /\ wfPc' = "exited"
              /\ UNCHANGED <<gwVars, cvFile, script>>
    /\ UNCHANGED <<state, wfNode, wfUpdate, wfError, started, merged, disk,
                   verify, fatal, orig, wrote, final_state, requests, sideVars>>

\* _get_gemini_response has ended: extract_structured_data returns cv_data.
extract_structured_data ==
    /\ prog = "cv_generator"
    /\ wfPc = "gateway"
    /\ gwPhase \in {"returned", "raised"}
    /\ \E p \in StructuringPayloads :
         script' = [script EXCEPT !.raw_response = gwResult,
                                  !.cv_data = extract_structured_data_result(gwResult, p)]
    /\ wfPc' = "structured"
    /\ GatewayLeft
    /\ UNCHANGED <<state, wfNode, wfUpdate, wfError, started, merged, reported,
                   cvFile, disk, verify, fatal, orig, wrote, prog, final_state,
                   requests, sideVars>>

\* cv_data.get('personal_info', {}).get('name', 'User')
PersonalName(cv_data) ==
    IF "personal_info" \in cv_data.keys THEN cv_data.name ELSE << "User" >>

\* render_cv and save_tex_file on cv_data; an exception of render_cv (the
\* template is not found or does not render, or cv_data is no mapping) is
\* printed by the block's except clause.
cv_generator_render ==
    /\ prog = "cv_generator"
    /\ wfPc = "structured"
    /\ \E rendered \in BOOLEAN :
         IF rendered /\ script.cv_data.isDict
         THEN /\ disk' = disk \cup {save_tex_file(PersonalName(script.cv_data),
                                                  script.selected_template)}
              /\ reported' = "SUCCESS! CV Generated."
              /\ wfPc' = "done"
         ELSE /\ reported' = "Failed"
              /\ wfPc' = "failed"
              /\ UNCHANGED disk
    /\ UNCHANGED <<gwVars, state, wfNode, wfUpdate, wfError, started, merged,
                   cvFile, verify, fatal, orig, wrote, callVars>>

----------------------------------------------------------------------------
(* routes/generation_routes.py: POST /generate-final-cv/.                  *)

\* The longest new_skills_to_inject a modelled request carries.
MaxInject == 2

\* The skill names a modelled request carries: two skills, one of them in
\* two casings.
SkillNames == {"Python", "python", "Go"}

\* The profiles a client holds before its first request.
GenerationProfiles ==
    { Profile({"name", "skills"}, <<"Ana">>, <<"Python">>),
      Profile({"name", "skills"}, <<"Ana">>, << >>),
      Profile({"name", "skills"}, <<"Ana">>, <<"Python", "python">>),
      Profile({"name"}, <<"Ana">>, << >>) }

\* request.new_skills_to_inject: None or a list of skill names.
NewSkillLists ==
    {NoList} \cup
    { List(items) : items \in UNION { [1..n -> SkillNames] : n \in 0..MaxInject } }

\* request.user_name
UserNames == { <<"Ana", " ", "Li">> }

\* No request served yet; a served request is held as the route saw it:
\* what it received, the profile after the injection, and its response.
NoGeneration ==
    [served |-> FALSE, base_data |-> NoProfile, new_skills_to_inject |-> NoList,
     final_data |-> NoProfile, status |-> 0, path |-> NoPath]

\* The route serves one request. The client sends the profile it holds: the
\* one it started with, then the one its previous request left.
generate_final_cv ==
    /\ \E base_data \in (IF generation.served
                         THEN {generation.final_data} ELSE GenerationProfiles),
          new_skills_to_inject \in NewSkillLists,
          user_name \in UserNames,
          template_name \in Templates,
          rendered \in BOOLEAN :
         LET final_data == inject_missing_skills(base_data, new_skills_to_inject)
             saved_tex_file == save_tex_file(user_name, template_name)
         IN  /\ generation' =
                    [served |-> TRUE, base_data |-> base_data,
                     new_skills_to_inject |-> new_skills_to_inject,
                     final_data |-> final_data,
                     status |-> IF rendered THEN 200 ELSE 500,
                     path |-> IF rendered THEN saved_tex_file ELSE NoPath]
             /\ disk' = IF rendered THEN disk \cup {saved_tex_file} ELSE disk
    /\ UNCHANGED <<gwVars, state, wfPc, wfNode, wfUpdate, wfError, started, merged,
                   reported, cvFile, verify, fatal, orig, wrote, prog,
                   final_state, requests, script, runs, files, roadmap>>

----------------------------------------------------------------------------
(* Two runs of the workflow side by side: two processes started in the     *)
(* same working directory, or two workers serving /analyze-cv/. Each run   *)
(* has a state of its own; the files they write are in one directory. The  *)
(* stages before the report are taken by their result: the fields they     *)
(* return, or the failure that ends the run.                               *)

RunIds == {1, 2}

\* The CVs the two runs are given, by what the model extracts from them.
ConcurrentProfiles ==
    { Profile({"name", "skills"}, <<"Ana", " ", "Li">>, <<"Python">>),
      Profile({"name", "skills"}, <<"Ana", " ", "Li">>, <<"Go">>) }

ConcurrentReports ==
    { Report("gap", <<"Python">>, <<"Go">>),
      Report("gap", <<"Go">>, <<"SQL">>) }

ConcurrentJobTitles == JobTitles \cup { <<"Data", " ", "Engineer">> }

\* What a file holds: nothing, a report, or a rendered CV.
NoContent == [kind |-> "-", title |-> << >>, report |-> NoReport, data |-> NoProfile]

ReportContent(job_title, report) ==
    [kind |-> "pdf", title |-> job_title, report |-> report, data |-> NoProfile]

TexContent(template_name, data) ==
    [kind |-> "tex", title |-> template_name, report |-> NoReport, data |-> data]

\* The content of the file at a path, NoContent when there is none.
ReadFile(fs, path) == IF path \in DOMAIN fs THEN fs[path] ELSE NoContent

\* A run that has not started: node is the node it runs next.
IdleRun ==
    [node |-> "-", job_title |-> << >>, structured_cv_data |-> NoProfile,
     user_name |-> NoName, skill_report |-> NoReport, pdf_path |-> NoPath,
     new_skills_to_add |-> NoList, template_selection |-> << >>,
     final_cv_tex_path |-> NoPath, ended |-> FALSE,
     pdf_at_end |-> NoContent, tex_at_end |-> NoContent]

NoRuns == [r \in RunIds |-> IdleRun]

NoFiles == << >>

\* open(filename, "w").write(content): the file holds content and nothing else.
WriteFile(fs, filename, content) ==
    [f \in DOMAIN fs \cup {filename} |-> IF f = filename THEN content ELSE fs[f]]

\* The variables of the one run, the gateways and the other programs.
oneRunVars ==
    <<gwVars, state, wfPc, wfNode, wfUpdate, wfError, started, merged, reported,
      cvFile, disk, verify, fatal, orig, wrote, prog, final_state, requests,
      script>>

\* Run r's node returns, the engine merges its update and moves to the next node.
StageReturns(r, after) ==
    runs' = [runs EXCEPT ![r] = [after EXCEPT !.node = Successor(runs[r].node)]]

\* Run r's node raises (its file is unreadable, generate_safe ran out of
\* models, the template is missing): invoke() raises and the run is over.
StageRaises(r) == runs' = [runs EXCEPT ![r].node = "failed"]

\* A process, or a request to /analyze-cv/, starts run r with its own
\* initial_input.
analyze_cv(r) ==
    /\ runs[r].node = "-"
    /\ \E job_title \in ConcurrentJobTitles, template_selection \in Templates :
         runs' = [runs EXCEPT ![r] =
                    [IdleRun EXCEPT !.node = ENTRY_POINT,
                                    !.job_title = job_title,
                                    !.template_selection = template_selection]]
    /\ UNCHANGED <<oneRunVars, generation, files, roadmap>>

cv_reader_node_of(r) ==
    /\ runs[r].node = "read_cv"
    /\ \E read \in BOOLEAN :
         IF read THEN StageReturns(r, runs[r]) ELSE StageRaises(r)
    /\ UNCHANGED <<oneRunVars, generation, files, roadmap>>

extract_data_node_of(r) ==
    /\ runs[r].node = "extract_data"
    /\ \E structured_data \in ConcurrentProfiles \cup {NotAnObject} :
         IF structured_data.isDict
         THEN StageReturns(r, [runs[r] EXCEPT
                                 !.structured_cv_data = structured_data,
                                 !.user_name = structured_data.name])
         ELSE StageRaises(r)
    /\ UNCHANGED <<oneRunVars, generation, files, roadmap>>

generate_job_requirements_node_of(r) ==
    /\ runs[r].node = "generate_job_requirements"
    /\ \E answered \in BOOLEAN :
         IF answered THEN StageReturns(r, runs[r]) ELSE StageRaises(r)
    /\ UNCHANGED <<oneRunVars, generation, files, roadmap>>

analyze_skill_gap_node_of(r) ==
    /\ runs[r].node = "analyze_skill_gap"
    /\ \E skill_report \in ConcurrentReports, answered \in BOOLEAN :
         IF answered
         THEN StageReturns(r, [runs[r] EXCEPT !.skill_report = skill_report])
         ELSE StageRaises(r)
    /\ UNCHANGED <<oneRunVars, generation, files, roadmap>>

\* pdf.output(filename): the file name is made of the job title alone.
generate_report_pdf_node_of(r) ==
    /\ runs[r].node = "generate_pdf"
    /\ LET filename == ReportFilename(runs[r].job_title)
       IN  /\ files' = WriteFile(files, filename,
                                 ReportContent(runs[r].job_title, runs[r].skill_report))
           /\ StageReturns(r, [runs[r] EXCEPT !.pdf_path = filename])
    /\ UNCHANGED <<oneRunVars, generation, roadmap>>

skill_verification_node_of(r) ==
    /\ runs[r].node = "verify_skills"
    /\ \E add \in {<< >>, runs[r].skill_report.missing} :
         StageReturns(r, [runs[r] EXCEPT !.new_skills_to_add = List(add)])
    /\ UNCHANGED <<oneRunVars, generation, files, roadmap>>

\* save_tex_file: the file name is made of the candidate's name and the
\* template's.
render_and_save_node_of(r) ==
    /\ runs[r].node = "render_final_cv"
    /\ \E rendered \in BOOLEAN :
         LET data == inject_missing_skills(runs[r].structured_cv_data,
                                           runs[r].new_skills_to_add)
             filename == save_tex_file(runs[r].user_name, runs[r].template_selection)
         IN  IF rendered
             THEN /\ files' = WriteFile(files, filename,
                                        TexContent(runs[r].template_selection, data))
                  /\ StageReturns(r, [runs[r] EXCEPT !.structured_cv_data = data,
                                                     !.final_cv_tex_path = filename])
             ELSE /\ StageRaises(r)
                  /\ UNCHANGED files
    /\ UNCHANGED <<oneRunVars, generation, roadmap>>

\* invoke() returns run r's final state and the caller opens the two files
\* the state names.
invoke_returns(r) ==
    /\ runs[r].node = END
    /\ ~runs[r].ended
    /\ runs' = [runs EXCEPT
                  ![r].ended = TRUE,
                  ![r].pdf_at_end = ReadFile(files, runs[r].pdf_path),
                  ![r].tex_at_end = ReadFile(files, runs[r].final_cv_tex_path)]
    /\ UNCHANGED <<oneRunVars, generation, files, roadmap>>

----------------------------------------------------------------------------
(* roadmap_mvp: the two-node roadmap workflow and run_roadmap_mvp, which   *)
(* builds its input from a line the user types and saves its output.       *)

\* The most comma-separated pieces the typed line has.
MaxSkills == 3

\* The pieces between the commas of the typed line.
RoadmapPieces == {"Figma", " SQL ", " ", ""}

\* str.strip() of a piece
StripPiece(s) ==
    CASE s = " SQL " -> "SQL"
      [] s = " " -> ""
      [] OTHER -> s

\* skills_input.split(','): a line always has one piece at least.
RoadmapInputs == UNION { [1..n -> RoadmapPieces] : n \in 1..MaxSkills }

\* [s.strip() for s in skills_input.split(',') if s.strip()]
skills_to_test(skills_input) ==
    SelectSeq([i \in 1..Len(skills_input) |-> StripPiece(skills_input[i])],
              LAMBDA s : s # "")

ROADMAP_ENTRY_POINT == "search_courses"

\* graph.add_edge
ROADMAP_EDGES == [search_courses |-> "synthesize_links", synthesize_links |-> END]

\* final_roadmap_json: None, the roadmap the model's JSON denotes, or the
\* entry {"error": str(e)}.
NoJson == [kind |-> "None", error |-> "-"]

RoadmapJson == [kind |-> "roadmap", error |-> "-"]

ErrorEntry(e) == [kind |-> "error", error |-> e]

\* RoadmapState(skills_to_learn=..., raw_search_data={}, final_roadmap_json=None)
RoadmapState(skills_to_learn) ==
    [skills_to_learn |-> skills_to_learn, raw_search_data |-> << >>,
     final_roadmap_json |-> NoJson]

NoRoadmap ==
    [pc |-> "idle", node |-> "-", skills_input |-> << >>,
     state |-> RoadmapState(<< >>), ran |-> << >>, outcome |-> "-",
     reported |-> "-", saved |-> NoJson]

\* The three mock results of one skill.
Links(skill) ==
    << "https://www.coursera.org/search?query=" \o skill,
       "https://www.udemy.com/courses/search/?q=" \o skill,
       "https://www.edx.org/search?q=" \o skill >>

\* The update scraper_node returns: a dictionary keyed by skill.
scraper_node_result(skills) ==
    [raw_search_data |->
        [skill \in {skills[i] : i \in 1..Len(skills)} |-> Links(skill)]]

\* generator_node without its try: the exception leaves the node.
generator_node_result_unguarded(o) ==
    IF o \in ErrorClasses \/ ~JsonLoads(RemoveFences(o))
    THEN [raised |-> TRUE, final_roadmap_json |-> NoJson]
    ELSE [raised |-> FALSE, final_roadmap_json |-> RoadmapJson]

\* The update generator_node returns when generate_content ended in o: an
\* exception of the call, or of json.loads, becomes an error entry.
generator_node_result(o) ==
    IF o \in ErrorClasses
    THEN [raised |-> FALSE, final_roadmap_json |-> ErrorEntry(o)]
    ELSE IF JsonLoads(RemoveFences(o))
    THEN [raised |-> FALSE, final_roadmap_json |-> RoadmapJson]
    ELSE [raised |-> FALSE, final_roadmap_json |-> ErrorEntry("JSONDecodeError")]

\* The user types a line; with no skill in it the function returns, otherwise
\* it builds the graph and invokes it.
run_roadmap_mvp ==
    /\ roadmap.pc = "idle"
    /\ \E skills_input \in RoadmapInputs :
         LET skills == skills_to_test(skills_input)
         IN  IF skills = << >>
             THEN roadmap' = [roadmap EXCEPT !.pc = "exited",
                                             !.skills_input = skills_input,
                                             !.reported = "No skills entered. Exiting."]
             ELSE roadmap' = [roadmap EXCEPT !.pc = "ready",
                                             !.skills_input = skills_input,
                                             !.node = ROADMAP_ENTRY_POINT,
                                             !.state = RoadmapState(skills)]
    /\ UNCHANGED <<oneRunVars, generation, runs, files>>

\* The engine runs search_courses and merges its update.
scraper_node ==
    /\ roadmap.pc = "ready"
    /\ roadmap.node = "search_courses"
    /\ LET update == scraper_node_result(roadmap.state.skills_to_learn)
       IN  roadmap' = [roadmap EXCEPT
                         !.state.raw_search_data = update.raw_search_data,
                         !.ran = Append(@, "search_courses"),
                         !.node = ROADMAP_EDGES.search_courses]
    /\ UNCHANGED <<oneRunVars, generation, runs, files>>

\* The engine runs synthesize_links and merges its update; at END invoke()
\* returns. An exception leaving the node would leave invoke() and be caught
\* by run_roadmap_mvp.
generator_node ==
    /\ roadmap.pc = "ready"
    /\ roadmap.node = "synthesize_links"
    /\ \E o \in Outcomes :
         LET result == generator_node_result(o)
         IN  IF result.raised
             THEN roadmap' = [roadmap EXCEPT
                                !.ran = Append(@, "synthesize_links"),
                                !.outcome = o,
                                !.pc = "failed",
                                !.reported = "CRITICAL WORKFLOW FAILURE"]
             ELSE roadmap' = [roadmap EXCEPT
                                !.state.final_roadmap_json = result.final_roadmap_json,
                                !.ran = Append(@, "synthesize_links"),
                                !.outcome = o,
                                !.node = ROADMAP_EDGES.synthesize_links,
                                !.pc = "returned"]
    /\ UNCHANGED <<oneRunVars, generation, runs, files>>

\* The roadmap of the final state is written to upskilling_roadmap.json; a
\* failure to write is caught and reported.
run_roadmap_mvp_output ==
    /\ roadmap.pc = "returned"
    /\ \E written \in BOOLEAN :
         IF written
         THEN roadmap' = [roadmap EXCEPT
                            !.pc = "done",
                            !.saved = roadmap.state.final_roadmap_json,
                            !.reported = "WORKFLOW COMPLETE!"]
         ELSE roadmap' = [roadmap EXCEPT
                            !.pc = "failed",
                            !.reported = "CRITICAL WORKFLOW FAILURE"]
    /\ UNCHANGED <<oneRunVars, generation, runs, files>>

----------------------------------------------------------------------------
(* Specifications                                                          *)

Init ==
    /\ GatewayIdle
    /\ state = BlankState
    /\ wfPc = "idle"
    /\ wfNode = "-"
    /\ wfUpdate = NoUpdate
    /\ wfError = "-"
    /\ started = << >>
    /\ merged = << >>
    /\ reported = "-"
    /\ cvFile = NoFile
    /\ disk = {}
    /\ verify = NoVerify
    /\ fatal = NoFatal
    /\ orig = BlankState
    /\ wrote = {}
    /\ prog = "-"
    /\ final_state = Unbound
    /\ requests = << >>
    /\ script = NoScript
    /\ generation = NoGeneration
    /\ runs = NoRuns
    /\ files = NoFiles
    /\ roadmap = NoRoadmap

\* The gateways the nodes and the engines call.
WorkflowGateway ==
    /\ \/ generate_safe_loop \/ generate_safe_sleep \/ generate_safe_retry
       \/ CVGenerator_loop \/ CVGenerator_sleep \/ CVGenerator_retry
       \/ SkillVerifier_loop \/ SkillVerifier_sleep \/ SkillVerifier_retry
    /\ UNCHANGED wfVars

Next ==
    \/ run_terminal_orchestration
    \/ run_terminal_orchestration_except
    \/ cv_reader_node
    \/ extract_data_node
    \/ generate_job_requirements_call
    \/ generate_job_requirements_node
    \/ analyze_skill_gap_call
    \/ analyze_skill_gap_node
    \/ generate_report_pdf_node
    \/ skill_verification_call
    \/ generate_questions
    \/ verify_skills_with_user
    \/ skill_verification_node
    \/ render_and_save_node
    \/ engine_merge
    \/ cv_generator_main
    \/ extract_structured_data
    \/ cv_generator_render
    \/ skill_verifier_main
    \/ skill_verifier_main_questions
    \/ skill_verifier_main_output
    \/ WorkflowGateway

\* One run of one program: the CV workflow of main.py, or the __main__
\* block of cv_generator.py or of skill_verifier.py.
Spec == Init /\ [][Next]_vars

\* A caller enters one of the three gateway functions with a prompt.
call_gateway ==
    /\ GatewayIdle
    /\ \E impl \in {"generate_safe", "CVGenerator", "SkillVerifier"} :
         GatewayEntered(impl)
    /\ UNCHANGED wfVars

GatewayNext ==
    \/ call_gateway
    \/ (GatewayStep /\ UNCHANGED wfVars)

\* One invocation of a gateway function, on its own.
GatewaySpec == Init /\ [][GatewayNext]_vars

\* The gateway generate_questions calls.
VerifierGateway ==
    /\ \/ SkillVerifier_loop \/ SkillVerifier_sleep \/ SkillVerifier_retry
    /\ UNCHANGED wfVars

VerifierNext ==
    \/ skill_verifier_main
    \/ VerifierGateway
    \/ skill_verifier_main_questions
    \/ verify_skills_with_user
    \/ verify_skills_with_user_again
    \/ skill_verifier_main_output

\* The __main__ block of skill_verifier.py, with a user who types invalid
\* answers as often as they like and a valid one in the end.
VerifierSpec == Init /\ [][VerifierNext]_vars /\ WF_vars(ValidInput)

ConcurrentNext ==
    \/ \E r \in RunIds : analyze_cv(r)
    \/ \E r \in RunIds : cv_reader_node_of(r)
    \/ \E r \in RunIds : extract_data_node_of(r)
    \/ \E r \in RunIds : generate_job_requirements_node_of(r)
    \/ \E r \in RunIds : analyze_skill_gap_node_of(r)
    \/ \E r \in RunIds : generate_report_pdf_node_of(r)
    \/ \E r \in RunIds : skill_verification_node_of(r)
    \/ \E r \in RunIds : render_and_save_node_of(r)
    \/ \E r \in RunIds : invoke_returns(r)

\* Two runs of the workflow in one output directory, their nodes interleaved.
ConcurrentSpec == Init /\ [][ConcurrentNext]_vars

RoadmapNext ==
    \/ run_roadmap_mvp
    \/ scraper_node
    \/ generator_node
    \/ run_roadmap_mvp_output

\* One run of roadmap_mvp/main.py.
RoadmapSpec == Init /\ [][RoadmapNext]_vars

GenerationNext ==
    \/ generate_final_cv

\* The requests one client sends to /generate-final-cv/, one after another.
GenerationSpec == Init /\ [][GenerationNext]_vars

----------------------------------------------------------------------------
(* Reading gwLog.                                                          *)

PriorityListOf(impl) ==
    CASE impl = "generate_safe" -> MODEL_PRIORITY_LIST
      [] impl = "CVGenerator" -> CVGenerator_model_priority
      [] impl = "SkillVerifier" -> SkillVerifier_model_priority
      [] OTHER -> << >>

FallbackModelOf(impl) ==
    CASE impl = "generate_safe" -> generate_safe_fallback_model
      [] impl = "CVGenerator" -> CVGenerator_fallback_model
      [] impl = "SkillVerifier" -> SkillVerifier_fallback_model
      [] OTHER -> "-"

ShortDelayOf(impl) ==
    CASE impl = "generate_safe" -> generate_safe_brief_pause
      [] impl = "CVGenerator" -> CVGenerator_brief_pause
      [] impl = "SkillVerifier" -> SkillVerifier_quota_wait
      [] OTHER -> 0

LongDelayOf(impl) ==
    CASE impl = "generate_safe" -> generate_safe_cooldown
      [] impl = "CVGenerator" -> CVGenerator_cooldown
      [] impl = "SkillVerifier" -> SkillVerifier_cooldown
      [] OTHER -> 0

Calls == SelectSeq(gwLog, LAMBDA e : e.ev = "call")

ListCalls == SelectSeq(gwLog, LAMBDA e : e.ev = "call" /\ e.at = "list")

FallbackCalls == SelectSeq(gwLog, LAMBDA e : e.ev = "call" /\ e.at = "fallback")

ShortDelays == SelectSeq(gwLog, LAMBDA e : e.ev = "sleep" /\ e.at = "except")

LongCooldowns == SelectSeq(gwLog, LAMBDA e : e.ev = "sleep" /\ e.at = "after_loop")

TransientListFailures ==
    SelectSeq(gwLog, LAMBDA e : e.ev = "call" /\ e.at = "list" /\ e.outcome = "transient")

\* Every model of the priority list was called and failed.
AllListModelsFailed ==
    /\ Len(ListCalls) = Len(PriorityListOf(gwImpl))
    /\ \A i \in 1..Len(ListCalls) : ListCalls[i].outcome \in ErrorClasses

GatewayEnded == gwPhase \in {"returned", "raised"}

----------------------------------------------------------------------------
(* Claims                                                                  *)

NodeOrder ==
    << "read_cv", "extract_data", "generate_job_requirements",
       "analyze_skill_gap", "generate_pdf", "verify_skills", "render_final_cv" >>

IsPrefix(t, u) == Len(t) <= Len(u) /\ \A i \in 1..Len(t) : t[i] = u[i]

\* C1: once extract_data_node has failed fatally (text under the floor, a
\* failed model call, or output that is not a JSON object), only read_cv and
\* extract_data have ever started, the run is failing, and the exception that
\* leaves invoke() and is printed at the run boundary is the one that names
\* the cause of the extract failure.
C1_ExtractFailureAbortsRun ==
    fatal.stage = "extract_data" =>
        /\ started = <<"read_cv", "extract_data">>
        /\ wfPc \in {"raised", "failed"}
        /\ CASE fatal.cause = "EmptyContent" ->
                  wfError = "RuntimeError: Cannot process CV: Raw CV text is empty or too short"
             [] fatal.cause = "ParseError" ->
                  wfError = "RuntimeError: LLM failed to generate valid structured CV JSON"
             [] OTHER -> wfError \in ErrorClasses
        /\ wfPc = "failed" => reported = wfError

C1_Witness ==
    /\ fatal = Fatal("extract_data", "ParseError")
    /\ wfPc = "failed"
    /\ reported = "RuntimeError: LLM failed to generate valid structured CV JSON"

\* C2: the nodes started, and the nodes merged, are always prefixes of the
\* fixed order of the seven nodes (so none is started twice or skipped), and
\* a node is started only when every node started before it has been merged.
C2_NodesRunInFixedOrder ==
    /\ IsPrefix(started, NodeOrder)
    /\ IsPrefix(merged, NodeOrder)
    /\ Len(merged) <= Len(started)
    /\ Len(started) <= Len(merged) + 1
    /\ wfPc = "ready" => Len(started) = Len(merged)
    /\ \A i \in 1..Len(merged) : Produces(merged[i]) \subseteq wrote

C2_Witness ==
    /\ wfPc = "done"
    /\ started = NodeOrder
    /\ merged = NodeOrder

\* C3: one gateway invocation issues at most one call per priority-list entry
\* and at most one fallback call, so never more than len(list) + 1 calls.
C3_AtMostLenPlusOneCalls ==
    gwImpl # "none" =>
        /\ Len(Calls) <= Len(PriorityListOf(gwImpl)) + 1
        /\ Len(ListCalls) <= Len(PriorityListOf(gwImpl))
        /\ Len(FallbackCalls) <= 1
        /\ \A i, j \in 1..Len(ListCalls) :
             ListCalls[i].model = ListCalls[j].model => i = j

C3_Witness ==
    /\ gwImpl = "generate_safe"
    /\ Len(Calls) = Len(MODEL_PRIORITY_LIST) + 1
    /\ GatewayEnded

\* C4: when the first n models of the priority list fail with transient
\* errors and model n+1 answers (with a text that is not empty), the calls
\* issued are exactly models 1..n+1 in list order, the gateway has returned
\* the response of model n+1, and neither the long cooldown nor the fallback
\* call nor any later list entry follows.
C4_FirstSuccessWins ==
    \A n \in 0..(Len(PriorityListOf(gwImpl)) - 1) :
        ( /\ Len(Calls) >= n + 1
          /\ \A i \in 1..n : Calls[i].outcome = "transient"
          /\ Calls[n + 1].outcome \in TextKinds \ {"empty"} )
        =>
        ( /\ Len(Calls) = n + 1
          /\ \A i \in 1..(n + 1) :
               Calls[i].model = PriorityListOf(gwImpl)[i] /\ Calls[i].at = "list"
          /\ gwLog[Len(gwLog)] = Calls[n + 1]
          /\ gwPhase = "returned"
          /\ gwResult = Response(PriorityListOf(gwImpl)[n + 1], Calls[n + 1].outcome)
          /\ LongCooldowns = << >>
          /\ FallbackCalls = << >> )

C4_Witness ==
    /\ gwImpl = "SkillVerifier"
    /\ gwPhase = "returned"
    /\ Len(Calls) = 3
    /\ Calls[1].outcome = "transient" /\ Calls[2].outcome = "transient"
    /\ gwResult = Response(SkillVerifier_model_priority[3], "json")

\* C5: the long cooldown is taken at most once; an invocation that has ended
\* took it exactly when every priority-list model failed; it comes after
\* every list call and before the fallback call; and the fallback call, of
\* the one designated model, is then issued exactly once.
C5_OneCooldownThenOneFallback ==
    gwImpl # "none" =>
        /\ Len(LongCooldowns) <= 1
        /\ Len(FallbackCalls) <= 1
        /\ \A i \in 1..Len(LongCooldowns) : LongCooldowns[i].secs = LongDelayOf(gwImpl)
        /\ \A i \in 1..Len(FallbackCalls) : FallbackCalls[i].model = FallbackModelOf(gwImpl)
        /\ \A i, j \in 1..Len(gwLog) :
             (gwLog[i].ev = "sleep" /\ gwLog[i].at = "after_loop" /\ gwLog[j].ev = "call")
             => IF gwLog[j].at = "list" THEN j < i ELSE i < j
        /\ FallbackCalls # << >> => Len(LongCooldowns) = 1
        /\ LongCooldowns # << >> => AllListModelsFailed
        /\ GatewayEnded =>
             IF AllListModelsFailed
             THEN Len(LongCooldowns) = 1 /\ Len(FallbackCalls) = 1
             ELSE LongCooldowns = << >> /\ FallbackCalls = << >>

C5_Witness ==
    /\ gwImpl = "CVGenerator"
    /\ GatewayEnded
    /\ AllListModelsFailed
    /\ Len(LongCooldowns) = 1
    /\ FallbackCalls = << CallEv(CVGenerator_fallback_model, "json", "fallback") >>

\* C6: when every priority-list model has failed and the fallback call has
\* failed too, the invocation has ended by raising an exception to its
\* caller, not by returning a value.
C6_ExhaustionRaises ==
    (AllListModelsFailed /\ GatewayExhausted) =>
        /\ gwPhase = "raised"
        /\ gwResult.kind = "exception"

\* C7: every transient failure of a priority-list model is followed at once
\* by the short delay of that gateway, no other failure of a list model is
\* followed by a short delay, and so the short delays taken are as many as
\* the transient failures among the list models.
C7_ShortDelayIffTransient ==
    gwImpl # "none" =>
        /\ Len(ShortDelays) = Len(TransientListFailures)
        /\ \A i \in 1..Len(ShortDelays) : ShortDelays[i].secs = ShortDelayOf(gwImpl)
        /\ \A i \in 1..Len(gwLog) :
             (gwLog[i].ev = "call" /\ gwLog[i].at = "list") =>
                IF gwLog[i].outcome = "transient"
                THEN i < Len(gwLog) /\ gwLog[i + 1] = SleepEv(ShortDelayOf(gwImpl), "except")
                ELSE i = Len(gwLog) \/ ~(gwLog[i + 1].ev = "sleep" /\ gwLog[i + 1].at = "except")

C7_Witness ==
    /\ gwImpl = "SkillVerifier"
    /\ GatewayEnded
    /\ Len(ListCalls) = 4
    /\ ListCalls[1].outcome = "transient"
    /\ ListCalls[2].outcome = "permanent"
    /\ ListCalls[3].outcome = "unknown"
    /\ ListCalls[4].outcome = "transient"
    /\ Len(ShortDelays) = 2

\* C8: a call that answers with an empty or whitespace-only text is never
\* what the gateway returns: the gateway goes on as after a transient failure
\* (the short delay, then the next model).
C8_EmptyResponseIsSoftFailure ==
    \A i \in 1..Len(gwLog) :
        (gwLog[i].ev = "call" /\ gwLog[i].outcome = "empty") =>
            /\ ~(gwPhase = "returned" /\ gwResult = Response(gwLog[i].model, "empty"))
            /\ gwLog[i].at = "list" =>
                 (i < Len(gwLog) /\ gwLog[i + 1] = SleepEv(ShortDelayOf(gwImpl), "except"))

\* C9: once a stage has met a fatal error (the gateway exhausted, the input
\* unreadable, the model output unparsable), the stage is the last one
\* started and what it hands to the engine is an exception, which then
\* reaches the run boundary: never an update that lets the run go on.
C9_FatalErrorsReachBoundary ==
    fatal # NoFatal =>
        /\ wfPc \in {"raised", "failed"}
        /\ started[Len(started)] = fatal.stage

\* C10: a field that its producing stage has written keeps the value that
\* stage wrote, in every later state of the run.
C10_ProducedFieldsKeepValue ==
    \A k \in wrote : state[k] = orig[k]

----------------------------------------------------------------------------
(* Claims on the stages' updates and on what a failed run leaves behind    *)

\* The five stages that compute fields from the document and the job title.
AnalysisStages ==
    {"read_cv", "extract_data", "generate_job_requirements",
     "analyze_skill_gap", "generate_pdf"}

\* C11: the update a stage returns to the engine has exactly the fields that
\* stage computed as its keys (read: cv_text; extract: structured_cv_data and
\* user_name; requirements: job_requirements; gap: skill_report; report:
\* pdf_path) and so holds no field another stage owns.
C11_UpdateHoldsOwnFieldsOnly ==
    (wfPc = "returned" /\ wfNode \in AnalysisStages) =>
        DOMAIN wfUpdate =
            CASE wfNode = "read_cv" -> {"cv_text"}
              [] wfNode = "extract_data" -> {"structured_cv_data", "user_name"}
              [] wfNode = "generate_job_requirements" -> {"job_requirements"}
              [] wfNode = "analyze_skill_gap" -> {"skill_report"}
              [] wfNode = "generate_pdf" -> {"pdf_path"}

C13_ReaderNeverReturnsEmptyText ==
    (wfNode = "read_cv" /\ wfPc = "returned") =>
        /\ state.cv_file_path \in {".txt", ".pdf"}
        /\ StripLen(wfUpdate.cv_text) > 0

----------------------------------------------------------------------------
(* Claims on the structuring stage                                         *)

EmptyContentError ==
    "RuntimeError: Cannot process CV: Raw CV text is empty or too short"

ExtractEnded == wfNode = "extract_data" /\ wfPc \in {"returned", "raised"}

\* C14 as stated: when extract_data_node has ended on a text that, as the
\* reader produced it, has fewer than 50 characters, it raised the
\* empty-content error and issued no model request; on a text of 50 or more
\* characters it passed the check and issued its request.
C14_FloorOnReaderText ==
    ExtractEnded =>
        IF TextLen(state.cv_text) < MIN_CV_CHARS
        THEN wfPc = "raised" /\ wfError = EmptyContentError /\ requests = << >>
        ELSE wfError # EmptyContentError /\ Len(requests) = 1

\* C14 as amended: the threshold applies to the text with its leading and
\* trailing whitespace removed. With fewer than 50 characters left the node
\* raised the empty-content error and no model request was issued, by it or
\* by a later stage; with 50 or more left it passed the check and issued
\* its one request.
C14_FloorOnStrippedText ==
    ExtractEnded =>
        IF StripLen(state.cv_text) < MIN_CV_CHARS
        THEN /\ wfPc = "raised" /\ wfError = EmptyContentError
             /\ requests = << >> /\ gwLog = << >>
        ELSE wfError # EmptyContentError /\ Len(requests) = 1

C14_Witness ==
    /\ ExtractEnded
    /\ TextLen(state.cv_text) = MIN_CV_CHARS
    /\ StripLen(state.cv_text) = MIN_CV_CHARS - 1
    /\ wfError = EmptyContentError
    /\ requests = << >>

ParseError ==
    "RuntimeError: LLM failed to generate valid structured CV JSON"

\* The fence-stripped text parses as JSON.
Parses(text) == JsonLoads(RemoveFences(text))

\* C15: a structuring call (extract_data_node, extract_structured_data)
\* that reached the model issued its request once; when the output, fences
\* removed, does not parse as JSON, no second request follows and the call
\* ends with a parse error: a call that returns a profile had output that
\* parsed.
C15_NoRetryAndParseErrorOnBadOutput ==
    /\ (ExtractEnded /\ requests # << >>) =>
          /\ Len(requests) = 1
          /\ (requests[1].outcome \in TextKinds /\ ~Parses(requests[1].outcome))
               => (wfPc = "raised" /\ wfError = ParseError)
          /\ wfPc = "returned" => Parses(requests[1].outcome)
    /\ (prog = "cv_generator" /\ wfPc = "structured") =>
          /\ script.raw_response.kind = "response"
          /\ Parses(script.raw_response.text)

\* The list-typed fields of a structured profile.
ListFields == {"skills", "education", "experience", "projects", "leadership"}

\* C16: the profile a structuring call returns has every list-typed field
\* among its keys, whatever keys the model output had.
C16_ListFieldsAlwaysPresent ==
    /\ (wfNode = "extract_data" /\ wfPc = "returned") =>
          ListFields \subseteq wfUpdate.structured_cv_data.keys
    /\ (prog = "cv_generator" /\ wfPc = "structured" /\ script.cv_data.isDict) =>
          ListFields \subseteq script.cv_data.keys

----------------------------------------------------------------------------
(* Claims on the verification of the missing skills                        *)

\* The missing skills of the gap report, and the list that was handed to
\* generate_questions: read back from the report file by the __main__ block,
\* taken from the report itself by the node.
MissingSkills ==
    IF prog = "skill_verifier" THEN script.missing ELSE state.skill_report.missing

QuestionsInput ==
    IF prog = "skill_verifier"
    THEN script.extracted_missing_skills ELSE state.skill_report.missing

Min(a, b) == IF a < b THEN a ELSE b

\* C17: the user is asked about min(n, 4) skills when the n missing skills
\* were read back from a rendered report, and about all n when they were
\* taken from the structured report; generate_questions never leaves the
\* user with no question for a list that has skills.
C17_AskedAboutMinOfNAndFour ==
    /\ wfPc = "asking" =>
          Len(verify.questions) =
              IF prog = "skill_verifier"
              THEN Min(Len(MissingSkills), TOP_SKILLS) ELSE Len(MissingSkills)
    /\ reported # "Failed to generate questions."

\* C18: the questions generate_questions returned are, one per skill and in
\* the order of the list it was given, the questions on those skills,
\* whatever the gateway answered.
C18_OneQuestionPerSkillInOrder ==
    /\ wfPc = "asking" => verify.questions = QuestionsInput
    /\ reported # "Failed to generate questions."

\* C19: an input() of verify_skills_with_user that is neither "1" nor "2"
\* leaves both lists and the question being asked as they were, and that
\* question is still to be answered; an input of "1" or "2" moves on by
\* exactly one question.
C19_InvalidInputRepromptsSameQuestion ==
    [][ (wfPc = "asking" /\ wfPc' = "asking" /\ verify' # verify) =>
          /\ verify'.questions = verify.questions
          /\ IF verify'.choice \in {"1", "2"}
             THEN verify'.i = verify.i + 1
             ELSE /\ verify'.i = verify.i
                  /\ verify'.i <= Len(verify'.questions)
                  /\ verify'.add = verify.add
                  /\ verify'.roadmap = verify.roadmap ]_vars

C19_Witness ==
    /\ wfPc = "asking"
    /\ verify.choice = "other"
    /\ verify.reprompts = 1
    /\ verify.i = 2
    /\ Len(verify.add) + Len(verify.roadmap) = 1

\* The skills of the questions answered with choice c so far, in question
\* order.
AnsweredWith(c) ==
    LET idx == SelectSeq([k \in 1..Len(verify.answers) |-> k],
                         LAMBDA k : verify.answers[k] = c)
    IN  [n \in 1..Len(idx) |-> verify.questions[idx[n]]]

\* C20: while verify_skills_with_user runs and when it returns, the
\* confirmed list holds the skills of the questions answered "1" and the
\* deferred list those answered "2", each in question order, so the two
\* lengths add up to the number of questions answered so far, which at the
\* return is the number of questions.
C20_ListsPartitionTheQuestions ==
    wfPc = "asking" =>
        /\ Len(verify.answers) = verify.i - 1
        /\ verify.i <= Len(verify.questions) + 1
        /\ verify.add = AnsweredWith("1")
        /\ verify.roadmap = AnsweredWith("2")
        /\ Len(verify.add) + Len(verify.roadmap) = verify.i - 1

C20_Witness ==
    /\ wfPc = "asking"
    /\ verify.questions = <<"Go", "SQL", "Rust", "Java">>
    /\ verify.i > Len(verify.questions)
    /\ verify.add = <<"Go", "Rust">>
    /\ verify.roadmap = <<"SQL", "Java">>

----------------------------------------------------------------------------
(* inject_missing_skills, as /generate-final-cv/ applies it.               *)

\* The skills a profile lists, none when it has no "skills" key.
SkillsOf(p) == IF "skills" \in p.keys THEN p.skills ELSE << >>

\* The lower-cased elements of a list of skills.
LowerSet(skills) == {Lower(skills[i]) : i \in 1..Len(skills)}

\* C21: when every entry of new_skills matches an existing skill of the
\* profile ignoring case, inject_missing_skills leaves the skills list as it
\* was, in length and in content; and a request that sends the result of the
\* previous one again with the same new_skills gets it back unchanged.
C21_InjectionIsIdempotent ==
    /\ [](  (/\ generation.served
            /\ ~generation.new_skills_to_inject.isNone
            /\ LowerSet(generation.new_skills_to_inject.items)
                  \subseteq LowerSet(SkillsOf(generation.base_data)))
          => /\ Len(SkillsOf(generation.final_data)) = Len(SkillsOf(generation.base_data))
             /\ SkillsOf(generation.final_data) = SkillsOf(generation.base_data))
    /\ [][ (/\ generation.served
            /\ generation'.base_data = generation.final_data
            /\ generation'.new_skills_to_inject = generation.new_skills_to_inject)
          => generation'.final_data = generation.final_data ]_vars

\* A request whose new skill differs from an existing one in casing only,
\* sent with a profile an earlier request had injected skills into.
C21_Witness ==
    /\ generation.served
    /\ generation.base_data \notin GenerationProfiles
    /\ SkillsOf(generation.base_data) = <<"Python", "Go">>
    /\ generation.new_skills_to_inject = List(<<"python", "Go">>)
    /\ generation.final_data = generation.base_data

\* No two entries of a list of skills are equal ignoring case.
Deduplicated(skills) ==
    \A i, j \in 1..Len(skills) : Lower(skills[i]) = Lower(skills[j]) => i = j

\* C22: when no two skills of the profile are equal ignoring case, no two
\* are after inject_missing_skills, whatever new_skills holds: a skill
\* twice, or a skill in two casings.
C22_SkillsStayDeduplicated ==
    (generation.served /\ Deduplicated(SkillsOf(generation.base_data)))
        => Deduplicated(SkillsOf(generation.final_data))

RECURSIVE IsSubsequence(_, _)
\* t is u with some of its elements left out.
IsSubsequence(t, u) ==
    IF t = << >> THEN TRUE
    ELSE IF u = << >> THEN FALSE
    ELSE IF Head(t) = Head(u) THEN IsSubsequence(Tail(t), Tail(u))
    ELSE IsSubsequence(t, Tail(u))

\* C26: inject_missing_skills only appends to the skills list: the skills
\* the profile had are a prefix of the list, in their order; the entries
\* after them are entries of new_skills in the order of new_skills; no other
\* field of the profile changes; and with no new_skills, or an empty list,
\* the profile is returned as it was, a missing "skills" key still missing.
C26_InjectionOnlyAppends ==
    generation.served =>
        LET before == generation.base_data
            after == generation.final_data
            new_skills == generation.new_skills_to_inject
            added == SubSeq(SkillsOf(after), Len(SkillsOf(before)) + 1,
                            Len(SkillsOf(after)))
        IN  /\ IsPrefix(SkillsOf(before), SkillsOf(after))
            /\ IsSubsequence(added, new_skills.items)
            /\ after.name = before.name
            /\ after.isDict = before.isDict
            /\ after.keys \ {"skills"} = before.keys \ {"skills"}
            /\ (new_skills.isNone \/ new_skills.items = << >>) => after = before

\* A profile with skills of its own that gained two of them.
C26_Witness ==
    /\ generation.served
    /\ generation.base_data \in GenerationProfiles
    /\ SkillsOf(generation.base_data) = <<"Python">>
    /\ generation.new_skills_to_inject = List(<<"Go", "python">>)
    /\ SkillsOf(generation.final_data) = <<"Python", "Go">>

----------------------------------------------------------------------------
(* The fields of the run, stage by stage.                                  *)

NodeOrderSet == {NodeOrder[i] : i \in 1..Len(NodeOrder)}

\* The fields initial_input leaves for a stage to fill: None, or no key.
StageFields == (UNION {Produces(n) : n \in NodeOrderSet}) \ {"cv_text"}

\* A field holds something: it is not None and its key is there.
IsSet(k) == state[k] # BlankState[k]

\* The stages whose update the engine has merged.
Completed == {merged[i] : i \in 1..Len(merged)}

----------------------------------------------------------------------------
(* verify_skills_with_user and the user.                                   *)

\* verify_skills_with_user is at a question, waiting for input().
AtQuestion == wfPc = "asking" /\ verify.i <= Len(verify.questions)

\* C25: with a user who eventually types a valid choice at every question,
\* verify_skills_with_user gets past its last question and returns; and a
\* question is left in one way only, by a valid choice, for the next
\* question: an invalid input leaves the step at the same question, and
\* nothing else (no timeout, no cancellation) moves it.
C25_ReturnsExactlyOnValidInput ==
    /\ AtQuestion ~> (wfPc = "asking" /\ verify.i > Len(verify.questions))
    /\ [][ AtQuestion =>
             /\ wfPc' = "asking"
             /\ verify'.questions = verify.questions
             /\ \/ verify'.i = verify.i
                \/ verify'.i = verify.i + 1 /\ verify'.choice \in {"1", "2"}
             /\ verify'.choice = "other" => verify'.i = verify.i ]_vars

\* The function returned after more invalid answers than the model counts.
C25_Witness ==
    /\ prog = "skill_verifier"
    /\ wfPc = "asking"
    /\ verify.i > Len(verify.questions)
    /\ Len(verify.questions) >= 2
    /\ verify.reprompts = MaxReprompts

----------------------------------------------------------------------------
(* Two runs side by side.                                                  *)

\* C23: two runs executing concurrently never interfere: when a run
\* completes, the file its pdf_path names holds the report of that run and
\* the file its final_cv_tex_path names holds the CV rendered from that
\* run's profile, also when both runs have the same job title, candidate
\* name and template.
C23_RunsNeverInterfere ==
    \A r \in RunIds :
        runs[r].ended =>
            /\ runs[r].pdf_at_end =
                  ReportContent(runs[r].job_title, runs[r].skill_report)
            /\ runs[r].tex_at_end =
                  TexContent(runs[r].template_selection, runs[r].structured_cv_data)

----------------------------------------------------------------------------
(* The roadmap workflow.                                                   *)

\* invoke() is over: it returned, or the caller reported its failure.
RoadmapEnded == roadmap.pc \in {"returned", "done", "failed"}

====
